---------------------------- MODULE Spec2Model ----------------------------
(***************************************************************************)
(* daumdic: `search` (src/src/lib.rs).  A call validates the search term,  *)
(* fetches the result page of the Daum dictionary, parses it into a tree   *)
(* and extracts the words and the alternative search terms with the        *)
(* selectors kept in the static SELECTOR_CACHE.                            *)
(*                                                                         *)
(* Strings are sequences of characters (Unicode scalar values).  The HTML  *)
(* text of a page is a sequence of tokens (start tag with its classes,     *)
(* character data, end tag); parse_document builds the node tree from it.  *)
(* A tree is the sequence of its nodes in document order, each with the    *)
(* index of its parent (0: the document root).                             *)
(***************************************************************************)
EXTENDS Naturals, Sequences, FiniteSets

\* ------------------------------------------------------------------------
\* Characters the source names
\* ------------------------------------------------------------------------
HAN == 54620
GUK == 44397
YEONG == 50689
IL == 51068
JA == 51088
JUNG == 51473

\* ------------------------------------------------------------------------
\* Bounds of the model
\* ------------------------------------------------------------------------
MaxLabelLen == 3
MaxMarks == 2
MaxCards == 2
MaxItems == 2
MaxSpellers == 2
MaxTokens == 4

\* ------------------------------------------------------------------------
\* Option, Result, iterators
\* ------------------------------------------------------------------------
None == <<>>
Some(x) == <<x>>
Ok(v) == [tag |-> "Ok", value |-> v, error |-> "-"]
Err(e) == [tag |-> "Err", value |-> <<>>, error |-> e]
NoResult == [tag |-> "-", value |-> <<>>, error |-> "-"]

\* Iterator::next on a fresh iterator: its first element, if any.
next(it) == IF it = <<>> THEN None ELSE Some(it[1])

RECURSIVE Flatten(_)
Flatten(ss) == IF ss = <<>> THEN <<>> ELSE Head(ss) \o Flatten(Tail(ss))

\* [&str]::join(""): the concatenation of the slices.
join(slices) == Flatten(slices)

\* is_empty without its test: the term is never taken for empty.
is_empty_unchecked(s) == FALSE

\* str::is_empty
is_empty(s) == Len(s) = 0

\* str::starts_with
starts_with(s, p) == Len(s) >= Len(p) /\ SubSeq(s, 1, Len(p)) = p

\* ------------------------------------------------------------------------
\* HTML text and its tree
\* ------------------------------------------------------------------------
StartTag(cs) == [t |-> "start", classes |-> cs, text |-> <<>>]
EndTag == [t |-> "end", classes |-> {}, text |-> <<>>]
Chars(s) == [t |-> "chars", classes |-> {}, text |-> s]

ElementNode(p, cs) == [parent |-> p, kind |-> "element", classes |-> cs, text |-> <<>>]
TextNode(p, s) == [parent |-> p, kind |-> "text", classes |-> {}, text |-> s]

\* The tree builder: a start tag opens a child of the innermost open element,
\* character data becomes a text node there, an end tag closes the innermost
\* open element; an end tag with nothing open is ignored and elements still
\* open at the end of the text are closed there.  It never fails.
RECURSIVE TreeBuilder(_, _, _)
TreeBuilder(tokens, nodes, open) ==
    IF tokens = <<>> THEN nodes
    ELSE LET tok == Head(tokens)
             parent == IF open = <<>> THEN 0 ELSE open[Len(open)]
         IN  CASE tok.t = "start" ->
                    TreeBuilder(Tail(tokens),
                                Append(nodes, ElementNode(parent, tok.classes)),
                                Append(open, Len(nodes) + 1))
               [] tok.t = "chars" ->
                    TreeBuilder(Tail(tokens),
                                Append(nodes, TextNode(parent, tok.text)),
                                open)
               [] OTHER ->
                    TreeBuilder(Tail(tokens), nodes,
                                IF open = <<>> THEN open
                                ELSE SubSeq(open, 1, Len(open) - 1))

parse_document(body) == TreeBuilder(body, <<>>, <<>>)

\* Node j lies strictly below node scope (0: the document root).
RECURSIVE IsWithin(_, _, _)
IsWithin(doc, j, scope) ==
    IF j = 0 THEN FALSE
    ELSE doc[j].parent = scope \/ IsWithin(doc, doc[j].parent, scope)

\* Selector::parse of a list of class selectors ".a,.b,.c": the list.
Selector_parse(css) == css

\* An element matches a selector list when it matches any selector of it.
Matches(sel, node) ==
    node.kind = "element" /\ \E i \in 1..Len(sel) : sel[i] \in node.classes

\* Html::select / ElementRef::select: the elements below scope that match,
\* in document order.
RECURSIVE SelectFrom(_, _, _, _)
SelectFrom(doc, scope, sel, j) ==
    IF j > Len(doc) THEN <<>>
    ELSE (IF Matches(sel, doc[j]) /\ IsWithin(doc, j, scope) THEN <<j>> ELSE <<>>)
         \o SelectFrom(doc, scope, sel, j + 1)

select(doc, scope, sel) == SelectFrom(doc, scope, sel, 1)

\* ElementRef::text: the text nodes below the element, in document order.
RECURSIVE TextFrom(_, _, _)
TextFrom(doc, e, j) ==
    IF j > Len(doc) THEN <<>>
    ELSE (IF doc[j].kind = "text" /\ IsWithin(doc, j, e) THEN <<doc[j].text>> ELSE <<>>)
         \o TextFrom(doc, e, j + 1)

text(doc, e) == TextFrom(doc, e, 1)

\* |element| element.text().collect::<Vec<_>>().join("")
element_text(doc, e) == join(text(doc, e))

\* .map(f) over the elements an iterator yields
map_text(doc, it) == [k \in 1..Len(it) |-> element_text(doc, it[k])]

\* ------------------------------------------------------------------------
\* Lang, Word, Search, SelectorSet
\* ------------------------------------------------------------------------
Korean == <<"Korean">>
English == <<"English">>
Japanese == <<"Japanese">>
Hanja == <<"Hanja">>
Other(label) == <<"Other", label>>

Word(w, l, p, m) == [word |-> w, lang |-> l, pronounce |-> p, meaning |-> m]
Search(ws, alts) == [words |-> ws, alternatives |-> alts]

\* The value the initialiser of SELECTOR_CACHE builds.
SelectorSet ==
    [card         |-> Selector_parse(<<"card_word">>),
     item         |-> Selector_parse(<<"cleanword_type", "search_type">>),
     word         |-> Selector_parse(<<"txt_cleansch", "txt_searchword", "txt_hanjaword">>),
     lang         |-> Selector_parse(<<"tit_word">>),
     pronounce    |-> Selector_parse(<<"sub_read", "txt_pronounce">>),
     meaning      |-> Selector_parse(<<"txt_search">>),
     alternatives |-> Selector_parse(<<"link_speller">>)]

\* The cell's storage before the initialiser has written it.
Uninit ==
    [card |-> <<>>, item |-> <<>>, word |-> <<>>, lang |-> <<>>,
     pronounce |-> <<>>, meaning |-> <<>>, alternatives |-> <<>>]

\* ------------------------------------------------------------------------
\* Extraction
\* ------------------------------------------------------------------------
\* LangOf deciding on the first character alone.
LangOfFirstChar(lang) ==
    IF starts_with(lang, <<HAN>>) THEN Korean
    ELSE IF starts_with(lang, <<YEONG>>) THEN English
    ELSE IF starts_with(lang, <<IL>>) THEN Japanese
    ELSE IF starts_with(lang, <<HAN, JA>>) THEN Hanja
    ELSE Other(lang)

\* The closure that maps a label text to its Lang.
LangOf(lang) ==
    IF starts_with(lang, <<HAN, GUK>>) THEN Korean
    ELSE IF starts_with(lang, <<YEONG>>) THEN English
    ELSE IF starts_with(lang, <<IL>>) THEN Japanese
    ELSE IF starts_with(lang, <<HAN, JA>>) THEN Hanja
    ELSE Other(lang)

\* let lang = card.select(&selector.lang).map(text).map(classify).next()
CardLang(doc, selector, card) ==
    LET labels == map_text(doc, select(doc, card, selector.lang))
    IN  next([k \in 1..Len(labels) |-> LangOf(labels[k])])

\* ItemWord trying the selectors of the list one after the other.
ItemWordByPriority(doc, selector, item) ==
    next(Flatten([n \in 1..Len(selector.word) |->
                    map_text(doc, select(doc, item, <<selector.word[n]>>))]))

\* ItemWord passing over the elements without text.
ItemWordSkipEmpty(doc, selector, item) ==
    next(SelectSeq(map_text(doc, select(doc, item, selector.word)),
                   LAMBDA w : w # <<>>))

\* let word = item.select(&selector.word).map(text).next()
ItemWord(doc, selector, item) ==
    next(map_text(doc, select(doc, item, selector.word)))

\* let pronounce = item.select(&selector.pronounce).map(text).next()
ItemPronounce(doc, selector, item) ==
    next(map_text(doc, select(doc, item, selector.pronounce)))

\* let meaning = item.select(&selector.meaning).map(text).collect()
ItemMeaning(doc, selector, item) ==
    map_text(doc, select(doc, item, selector.meaning))

\* The tuple the first closure over the items builds.
ItemTuple(doc, selector, lang, item) ==
    <<ItemWord(doc, selector, item), lang,
      ItemPronounce(doc, selector, item), ItemMeaning(doc, selector, item)>>

\* KeepTuple asking for a pronunciation too.
KeepTupleWithPronounce(t) ==
    IF t[1] # None /\ t[2] # None /\ t[3] # None
    THEN Some(Word(t[1][1], t[2][1], t[3], t[4]))
    ELSE None

\* KeepTuple keeping the items of a card without a label.
KeepTupleAnyLang(t) ==
    IF t[1] # None
    THEN Some(Word(t[1][1], IF t[2] # None THEN t[2][1] ELSE Other(<<>>), t[3], t[4]))
    ELSE None

\* .filter_map(|t| match t { (Some(word), Some(lang), ..) => Some(..), _ => None })
\* followed by the map to Word
KeepTuple(t) ==
    IF t[1] # None /\ t[2] # None
    THEN Some(Word(t[1][1], t[2][1], t[3], t[4]))
    ELSE None

\* CardPick yielding the Words of all the items.
CardPickAll(found) == found

\* Which of the Words of a card's items the card yields: .next()
CardPick(found) == next(found)

\* The closure of the outer filter_map: the Word of a card, if any.
CardWord(doc, selector, card) ==
    LET lang == CardLang(doc, selector, card)
        items == select(doc, card, selector.item)
    IN  CardPick(Flatten([k \in 1..Len(items) |->
                            KeepTuple(ItemTuple(doc, selector, lang, items[k]))]))

\* document.select(&selector.card).filter_map(..).collect()
Words(doc, selector) ==
    LET cards == select(doc, 0, selector.card)
    IN  Flatten([k \in 1..Len(cards) |-> CardWord(doc, selector, cards[k])])

\* Alternatives looking inside the cards only.
AlternativesInCards(doc, selector) ==
    LET cards == select(doc, 0, selector.card)
    IN  Flatten([k \in 1..Len(cards) |->
                   map_text(doc, select(doc, cards[k], selector.alternatives))])

\* document.select(&selector.alternatives).map(text).collect()
Alternatives(doc, selector) ==
    map_text(doc, select(doc, 0, selector.alternatives))

\* SearchOutcome reporting a page without words as an error.
SearchOutcomeNotFound(ws, alts) ==
    IF ws = <<>> THEN Err("WordNotFound") ELSE Ok(Search(ws, alts))

\* Ok(Search { words, alternatives })
SearchOutcome(ws, alts) == Ok(Search(ws, alts))

\* ------------------------------------------------------------------------
\* The pages the dictionary site may answer with
\* ------------------------------------------------------------------------
SeqsUpTo(S, n) == UNION {[1..k -> S] : k \in 0..n}

Elem(cs, inner) == <<StartTag(cs)>> \o inner \o <<EndTag>>
TextElem(cs, s) == Elem(cs, IF s = <<>> THEN <<>> ELSE <<Chars(s)>>)

LabelChars == {HAN, GUK, JA, YEONG, IL, JUNG}
KoreanLabel == TextElem({"tit_word"}, <<HAN, GUK, 50612>>)
PlainItem == Elem({"cleanword_type"}, TextElem({"txt_cleansch"}, <<119>>))

\* One card with every label text up to MaxLabelLen characters, alone or
\* followed by a second label element.
LabelPages ==
    {Elem({"card_word"}, TextElem({"tit_word"}, l) \o more \o PlainItem) :
        l \in SeqsUpTo(LabelChars, MaxLabelLen),
        more \in {<<>>, TextElem({"tit_word"}, <<YEONG>>)}}

\* The elements an item may hold: each marker class, without text, with a
\* text that names the class, or (the headword markers) with its text split
\* by an inner element.
MarkClasses ==
    {"txt_cleansch", "txt_searchword", "txt_hanjaword",
     "sub_read", "txt_pronounce", "txt_search"}
MarkText(c) ==
    CASE c = "txt_cleansch" -> <<99>>
      [] c = "txt_searchword" -> <<115>>
      [] c = "txt_hanjaword" -> <<104>>
      [] c = "sub_read" -> <<114>>
      [] c = "txt_pronounce" -> <<112>>
      [] OTHER -> <<109>>
Marks ==
    {TextElem({c}, s) : c \in MarkClasses, s \in {<<>>}} \cup
    {TextElem({c}, MarkText(c)) : c \in MarkClasses} \cup
    {Elem({c}, <<Chars(MarkText(c))>> \o Elem({"hl"}, <<Chars(<<120>>)>>)) :
        c \in {"txt_cleansch", "txt_searchword"}}

\* One card, with or without a label, with one item of up to MaxMarks marks.
ItemPages ==
    {Elem({"card_word"}, lab \o Elem({"search_type"}, Flatten(marks))) :
        lab \in {<<>>, KoreanLabel}, marks \in SeqsUpTo(Marks, MaxMarks)}

\* Up to MaxCards cards, each with or without a label, all with the same
\* items, up to MaxItems of them; an item either has a headword marker whose
\* text names the card and the item, or has a pronunciation and a gloss only.
ItemKinds == {"headword", "bare"}
RenderItem(ci, ii, kind) ==
    IF kind = "headword"
    THEN Elem({"cleanword_type"}, TextElem({"txt_searchword"}, <<48 + ci, 48 + ii>>))
    ELSE Elem({"search_type"},
              TextElem({"txt_pronounce"}, <<112>>) \o TextElem({"txt_search"}, <<109>>))
RenderCard(ci, labelled, kinds) ==
    Elem({"card_word", "card"},
         (IF labelled THEN KoreanLabel ELSE <<>>) \o
         Flatten([ii \in 1..Len(kinds) |-> RenderItem(ci, ii, kinds[ii])]))
CardPages ==
    {Flatten([ci \in 1..Len(ls) |-> RenderCard(ci, ls[ci], kinds)]) :
        ls \in SeqsUpTo(BOOLEAN, MaxCards), kinds \in SeqsUpTo(ItemKinds, MaxItems)}

\* Up to MaxCards cards whose one item has a headword, a pronunciation and
\* two glosses; a card has a label or none, and the second card may lie
\* inside the first.
FullItem(ci) ==
    Elem({"search_type"},
         TextElem({"txt_hanjaword"}, <<104, 48 + ci>>) \o
         TextElem({"sub_read"}, <<114>>) \o
         TextElem({"txt_search"}, <<109>>) \o TextElem({"txt_search"}, <<110>>))
FullCard(ci, labelled, inner) ==
    Elem({"card_word"},
         (IF labelled THEN TextElem({"tit_word"}, <<IL, 48 + ci>>) ELSE <<>>) \o
         FullItem(ci) \o inner)
FullCardPages ==
    {Flatten([ci \in 1..Len(ls) |-> FullCard(ci, ls[ci], <<>>)]) :
        ls \in SeqsUpTo(BOOLEAN, MaxCards)} \cup
    {FullCard(1, a, FullCard(2, b, <<>>)) : a \in BOOLEAN, b \in BOOLEAN}

\* Up to MaxSpellers suggestions, alone, inside the item of a card, or after
\* a card.
Spellers ==
    {TextElem({"link_speller"}, <<>>),
     TextElem({"link_speller"}, <<114>>),
     Elem({"link_speller"}, <<Chars(<<114>>)>> \o Elem({"hl"}, <<Chars(<<101>>)>>))}
SpellerPages ==
    {Flatten(sp) : sp \in SeqsUpTo(Spellers, MaxSpellers)} \cup
    {Elem({"card_word"}, KoreanLabel \o
          Elem({"search_type"}, Flatten(sp) \o TextElem({"txt_hanjaword"}, <<104>>))) :
        sp \in SeqsUpTo(Spellers, MaxSpellers)} \cup
    {Elem({"card_word"}, KoreanLabel \o PlainItem) \o Flatten(sp) :
        sp \in SeqsUpTo(Spellers, MaxSpellers)}

\* Text that is not well formed: a page cut anywhere, and one with a stray
\* end tag in front.
WholePage ==
    Elem({"card_word"},
         KoreanLabel \o
         Elem({"search_type"},
              TextElem({"txt_cleansch"}, <<99>>) \o TextElem({"sub_read"}, <<114>>) \o
              TextElem({"txt_search"}, <<109>>)))
    \o TextElem({"link_speller"}, <<114>>)
CutPages ==
    {SubSeq(WholePage, 1, n) : n \in 0..Len(WholePage)} \cup {<<EndTag>> \o WholePage}

\* Any text of up to MaxTokens tokens, well formed or not: start tags of a
\* card, a label, an item, a headword and a suggestion, the character x and
\* end tags, in any order and nesting.
Tokens ==
    {StartTag({"card_word"}), StartTag({"tit_word"}), StartTag({"search_type"}),
     StartTag({"txt_cleansch"}), StartTag({"link_speller"}), Chars(<<120>>), EndTag}
AnyPages == SeqsUpTo(Tokens, MaxTokens)

Pages ==
    LabelPages \cup ItemPages \cup CardPages \cup FullCardPages \cup SpellerPages
    \cup CutPages \cup AnyPages
SharedPages == FullCardPages \cup SpellerPages \cup CutPages

\* The search terms of the model: the empty one and one that is not.
Terms == {<<>>, <<119>>}

\* format!("https://dic.daum.net/search.do?q={}", word)
Url(w) == <<"https://dic.daum.net/search.do?q=", w>>

\* ------------------------------------------------------------------------
\* State
\* ------------------------------------------------------------------------
VARIABLES
    callers,         \* the tasks of the process that call search
    site,            \* the HTML text the site answers each URL with
    SELECTOR_CACHE,  \* the static OnceLock<SelectorSet>: its state and storage
    pc,              \* where each caller is in search
    word,            \* the argument of each caller's call
    log,             \* what each caller's call has done so far: requests, reads,
                     \* parses, cell accesses
    body,            \* let body = resp.text().await?
    document,        \* let document = scraper::Html::parse_document(&body)
    selector,        \* let selector = SELECTOR_CACHE.get_or_init(..)
    result           \* what the call returned

vars == <<callers, site, SELECTOR_CACHE, pc, word, log, body, document, selector, result>>

InitWith(cs, pages) ==
    /\ callers = cs
    /\ site \in [{Url(w) : w \in Terms \ {<<>>}} -> pages]
    /\ SELECTOR_CACHE = [state |-> "incomplete", value |-> Uninit]
    /\ pc = [c \in cs |-> "idle"]
    /\ word = [c \in cs |-> <<>>]
    /\ log = [c \in cs |-> <<>>]
    /\ body = [c \in cs |-> <<>>]
    /\ document = [c \in cs |-> <<>>]
    /\ selector = [c \in cs |-> Uninit]
    /\ result = [c \in cs |-> NoResult]

\* One task calling search, call after call.
Init == InitWith({1}, Pages)

\* Two tasks calling search concurrently.
InitShared == InitWith({1, 2}, SharedPages)

Return(c, r) ==
    /\ result' = [result EXCEPT ![c] = r]
    /\ pc' = [pc EXCEPT ![c] = "done"]

\* ------------------------------------------------------------------------
\* search
\* ------------------------------------------------------------------------
\* pub async fn search(word: &str)
Call(c, w) ==
    /\ pc[c] = "idle"
    /\ word' = [word EXCEPT ![c] = w]
    /\ pc' = [pc EXCEPT ![c] = "check"]
    /\ UNCHANGED <<callers, site, SELECTOR_CACHE, log, body, document, selector, result>>

\* if word.is_empty() { return Err(EmptyWord) }
CheckWord(c) ==
    /\ pc[c] = "check"
    /\ IF is_empty(word[c])
       THEN Return(c, Err("EmptyWord"))
       ELSE pc' = [pc EXCEPT ![c] = "send"] /\ UNCHANGED result
    /\ UNCHANGED <<callers, site, SELECTOR_CACHE, word, log, body, document, selector>>

\* client.get(&url).send().await? : the request is issued and answered
SendOk(c) ==
    /\ pc[c] = "send"
    /\ log' = [log EXCEPT ![c] = Append(@, "send")]
    /\ pc' = [pc EXCEPT ![c] = "text"]
    /\ UNCHANGED <<callers, site, SELECTOR_CACHE, word, body, document, selector, result>>

\* client.get(&url).send().await? : the request is issued and fails
SendErr(c) ==
    /\ pc[c] = "send"
    /\ log' = [log EXCEPT ![c] = @ \o <<"send", "send failed">>]
    /\ Return(c, Err("Request"))
    /\ UNCHANGED <<callers, site, SELECTOR_CACHE, word, body, document, selector>>

\* resp.text().await? : the body is read
TextOk(c) ==
    /\ pc[c] = "text"
    /\ body' = [body EXCEPT ![c] = site[Url(word[c])]]
    /\ log' = [log EXCEPT ![c] = Append(@, "text")]
    /\ pc' = [pc EXCEPT ![c] = "parse"]
    /\ UNCHANGED <<callers, site, SELECTOR_CACHE, word, document, selector, result>>

\* resp.text().await? : reading the body fails
TextErr(c) ==
    /\ pc[c] = "text"
    /\ log' = [log EXCEPT ![c] = Append(@, "text failed")]
    /\ Return(c, Err("Request"))
    /\ UNCHANGED <<callers, site, SELECTOR_CACHE, word, body, document, selector>>

\* let document = scraper::Html::parse_document(&body)
Parse(c) ==
    /\ pc[c] = "parse"
    /\ document' = [document EXCEPT ![c] = parse_document(body[c])]
    /\ log' = [log EXCEPT ![c] = Append(@, "parse")]
    /\ pc' = [pc EXCEPT ![c] = "get_or_init"]
    /\ UNCHANGED <<callers, site, SELECTOR_CACHE, word, body, selector, result>>

\* Readable as soon as an initialiser has started.
ReadableEarly(cell) == cell.state # "incomplete"

\* OnceLock::get: the value may be read once the cell is complete
Readable(cell) == cell.state = "complete"

\* SELECTOR_CACHE.get_or_init(..): the cell is initialised, its value is read
Get(c) ==
    /\ pc[c] = "get_or_init"
    /\ Readable(SELECTOR_CACHE)
    /\ selector' = [selector EXCEPT ![c] = SELECTOR_CACHE.value]
    /\ log' = [log EXCEPT ![c] = Append(@, "get")]
    /\ pc' = [pc EXCEPT ![c] = "extract"]
    /\ UNCHANGED <<callers, site, SELECTOR_CACHE, word, body, document, result>>

\* SELECTOR_CACHE.get_or_init(..): the cell is empty, this caller runs the
\* initialiser; the others wait for it
InitBegin(c) ==
    /\ pc[c] = "get_or_init"
    /\ SELECTOR_CACHE.state = "incomplete"
    /\ SELECTOR_CACHE' = [SELECTOR_CACHE EXCEPT !.state = "running"]
    /\ pc' = [pc EXCEPT ![c] = "init"]
    /\ UNCHANGED <<callers, site, word, log, body, document, selector, result>>

\* the initialiser's value is stored and the cell completes
InitEnd(c) ==
    /\ pc[c] = "init"
    /\ SELECTOR_CACHE' = [state |-> "complete", value |-> SelectorSet]
    /\ selector' = [selector EXCEPT ![c] = SelectorSet]
    /\ log' = [log EXCEPT ![c] = Append(@, "init")]
    /\ pc' = [pc EXCEPT ![c] = "extract"]
    /\ UNCHANGED <<callers, site, word, body, document, result>>

\* let words = ..; let alternatives = ..; Ok(Search { words, alternatives })
Extract(c) ==
    /\ pc[c] = "extract"
    /\ Return(c, SearchOutcome(Words(document[c], selector[c]),
                               Alternatives(document[c], selector[c])))
    /\ UNCHANGED <<callers, site, SELECTOR_CACHE, word, log, body, document, selector>>

\* the caller drops the result and is ready for its next call
Drop(c) ==
    /\ pc[c] = "done"
    /\ pc' = [pc EXCEPT ![c] = "idle"]
    /\ word' = [word EXCEPT ![c] = <<>>]
    /\ log' = [log EXCEPT ![c] = <<>>]
    /\ body' = [body EXCEPT ![c] = <<>>]
    /\ document' = [document EXCEPT ![c] = <<>>]
    /\ selector' = [selector EXCEPT ![c] = Uninit]
    /\ result' = [result EXCEPT ![c] = NoResult]
    /\ UNCHANGED <<callers, site, SELECTOR_CACHE>>

Next ==
    \/ \E c \in callers, w \in Terms : Call(c, w)
    \/ \E c \in callers : CheckWord(c)
    \/ \E c \in callers : SendOk(c)
    \/ \E c \in callers : SendErr(c)
    \/ \E c \in callers : TextOk(c)
    \/ \E c \in callers : TextErr(c)
    \/ \E c \in callers : Parse(c)
    \/ \E c \in callers : Get(c)
    \/ \E c \in callers : InitBegin(c)
    \/ \E c \in callers : InitEnd(c)
    \/ \E c \in callers : Extract(c)
    \/ \E c \in callers : Drop(c)

Spec == Init /\ [][Next]_vars
SpecShared == InitShared /\ [][Next]_vars

\* ------------------------------------------------------------------------
\* Vocabulary of the properties: the tree described by sets of nodes
\* ------------------------------------------------------------------------
Tagged(doc, cs) ==
    {j \in 1..Len(doc) : doc[j].kind = "element" /\ doc[j].classes \cap cs # {}}
Under(doc, S, a) == {j \in S : IsWithin(doc, j, a)}

CardsOf(doc) == Tagged(doc, {"card_word"})
SpellersOf(doc) == Tagged(doc, {"link_speller"})
LabelsIn(doc, card) == Under(doc, Tagged(doc, {"tit_word"}), card)
ItemsIn(doc, card) == Under(doc, Tagged(doc, {"cleanword_type", "search_type"}), card)
HeadwordsIn(doc, item) ==
    Under(doc, Tagged(doc, {"txt_cleansch", "txt_searchword", "txt_hanjaword"}), item)
PronouncesIn(doc, item) == Under(doc, Tagged(doc, {"sub_read", "txt_pronounce"}), item)
GlossesIn(doc, item) == Under(doc, Tagged(doc, {"txt_search"}), item)

Least(S) == CHOOSE x \in S : \A y \in S : x <= y
Nth(S, k) == CHOOSE x \in S : Cardinality({y \in S : y <= x}) = k

\* The text content of an element: its text nodes, joined in document order.
RECURSIVE Joined(_, _)
Joined(doc, S) ==
    IF S = {} THEN <<>> ELSE doc[Least(S)].text \o Joined(doc, S \ {Least(S)})
Content(doc, e) ==
    Joined(doc, {j \in 1..Len(doc) : doc[j].kind = "text" /\ IsWithin(doc, j, e)})

Begins(s, p) == Len(p) <= Len(s) /\ \A i \in 1..Len(p) : s[i] = p[i]

\* The items of a card that have a headword marker, the cards with a label
\* and such an item, and the first such item of a card.
HeadedItems(doc, card) == {i \in ItemsIn(doc, card) : HeadwordsIn(doc, i) # {}}
Yielding(doc) ==
    {c \in CardsOf(doc) : LabelsIn(doc, c) # {} /\ HeadedItems(doc, c) # {}}
FirstHeaded(doc, card) == Least(HeadedItems(doc, card))

\* A call that has returned, and one that has returned a Search.
Returned(c) == pc[c] = "done"
Found(c) == pc[c] = "done" /\ result[c].tag = "Ok"
WordsOf(c) == result[c].value.words
AlternativesOf(c) == result[c].value.alternatives
Did(c, what) == \E n \in 1..Len(log[c]) : log[c][n] = what
FetchFailed(c) == Did(c, "send failed") \/ Did(c, "text failed")

\* ------------------------------------------------------------------------
\* Properties
\* ------------------------------------------------------------------------

\* C1: a call with the empty term issues no request, reads no body and
\* parses no document, and what it returns is the EmptyWord error, never a
\* Search.
C1_EmptyWordBeforeIO ==
    \A c \in callers :
        (pc[c] # "idle" /\ word[c] = <<>>) =>
            /\ log[c] = <<>>
            /\ pc[c] \in {"check", "done"}
            /\ Returned(c) => result[c] = Err("EmptyWord")
C1_Witness ==
    \E c \in callers : Returned(c) /\ word[c] = <<>> /\ result[c].tag = "Err"

\* C2: a call returns an error exactly when its term is empty or its fetch
\* (sending the request, reading the body) failed; otherwise it returns a
\* Search, and for a document without cards and suggestions that Search has
\* no words and no alternatives.
C2_ErrorIffEmptyOrFetchFailed ==
    \A c \in callers :
        Returned(c) =>
            /\ result[c].tag \in {"Ok", "Err"}
            /\ result[c].tag = "Err" <=> (word[c] = <<>> \/ FetchFailed(c))
            /\ (Found(c) /\ CardsOf(document[c]) = {} /\ SpellersOf(document[c]) = {})
                  => result[c].value = Search(<<>>, <<>>)
C2_Witness ==
    \E c \in callers :
        /\ Found(c) /\ word[c] # <<>> /\ Did(c, "parse")
        /\ WordsOf(c) = <<>> /\ AlternativesOf(c) = <<>>

\* C3: the lang of a word is decided by the text of its card's label alone:
\* a label that begins with HAN GUK gives Korean, with YEONG English, with IL
\* Japanese, with HAN JA Hanja, and any other label gives Other of that label.
LangFits(l, label) ==
    /\ Begins(label, <<HAN, GUK>>) => l = Korean
    /\ Begins(label, <<YEONG>>) => l = English
    /\ Begins(label, <<IL>>) => l = Japanese
    /\ Begins(label, <<HAN, JA>>) => l = Hanja
    /\ (~Begins(label, <<HAN, GUK>>) /\ ~Begins(label, <<YEONG>>)
        /\ ~Begins(label, <<IL>>) /\ ~Begins(label, <<HAN, JA>>)) => l = Other(label)
C3_LangByLabelPrefix ==
    \A c \in callers :
        Found(c) =>
            LET doc == document[c]
            IN  \A k \in 1..Len(WordsOf(c)) :
                    k <= Cardinality(Yielding(doc)) =>
                        LangFits(WordsOf(c)[k].lang,
                                 Content(doc, Least(LabelsIn(doc, Nth(Yielding(doc), k)))))
C3_Witness ==
    \E c \in callers :
        /\ Found(c) /\ Len(WordsOf(c)) = 1
        /\ WordsOf(c)[1].lang = Other(<<HAN, JUNG, GUK>>)

\* C4: the alternatives are the text contents of all the link_speller
\* elements of the document, in document order, duplicates kept, whatever
\* cards and words the document has.
C4_AlternativesAreSpellers ==
    \A c \in callers :
        Found(c) =>
            LET doc == document[c]
            IN  /\ Len(AlternativesOf(c)) = Cardinality(SpellersOf(doc))
                /\ \A k \in 1..Len(AlternativesOf(c)) :
                       AlternativesOf(c)[k] = Content(doc, Nth(SpellersOf(doc), k))
C4_Witness ==
    \E c \in callers :
        /\ Found(c) /\ WordsOf(c) = <<>> /\ CardsOf(document[c]) = {}
        /\ AlternativesOf(c) = <<<<114>>, <<114>>>>

\* The k-th yielding card of a document and the item its word comes from.
CardAt(doc, k) == Nth(Yielding(doc), k)
ItemAt(doc, k) == FirstHeaded(doc, CardAt(doc, k))
Aligned(c) == Len(WordsOf(c)) = Cardinality(Yielding(document[c]))

\* C5 as stated: the words are as many as the items with a headword marker
\* in the cards with a label.
C5_EveryHeadedItem ==
    \A c \in callers :
        Found(c) =>
            LET doc == document[c]
            IN  Len(WordsOf(c)) =
                    Cardinality(UNION {{<<card, i>> : i \in HeadedItems(doc, card)} :
                                          card \in {l \in CardsOf(doc) : LabelsIn(doc, l) # {}}})

\* C5, amended: an item of a card with a label yields a word exactly when it
\* has a headword marker and no item before it in the card has one; the word
\* has no pronunciation exactly when the item has no pronunciation marker
\* and as many meanings as the item has glosses, none included.
C5_FirstHeadedItem ==
    \A c \in callers :
        Found(c) =>
            LET doc == document[c]
                kept == UNION {{<<card, i>> : i \in {h \in HeadedItems(doc, card) :
                                                          \A i2 \in HeadedItems(doc, card) : h <= i2}} :
                               card \in {l \in CardsOf(doc) : LabelsIn(doc, l) # {}}}
            IN  /\ Len(WordsOf(c)) = Cardinality(kept)
                /\ \A k \in 1..Len(WordsOf(c)) :
                       \E p \in kept :
                           /\ Cardinality({q \in kept : q[1] <= p[1]}) = k
                           /\ WordsOf(c)[k].pronounce = None
                                 <=> PronouncesIn(doc, p[2]) = {}
                           /\ Len(WordsOf(c)[k].meaning)
                                 = Cardinality(GlossesIn(doc, p[2]))
C5_Witness ==
    \E c \in callers :
        /\ Found(c) /\ Len(WordsOf(c)) = 1
        /\ WordsOf(c)[1].pronounce = None /\ WordsOf(c)[1].meaning = <<>>
        /\ \E card \in CardsOf(document[c]) :
               /\ Cardinality(HeadedItems(document[c], card)) = 2
               /\ ItemsIn(document[c], card) = HeadedItems(document[c], card)

\* The headword element of an item by the order of the selector list.
ByPriority(doc, item) ==
    LET a == Under(doc, Tagged(doc, {"txt_cleansch"}), item)
        b == Under(doc, Tagged(doc, {"txt_searchword"}), item)
        h == Under(doc, Tagged(doc, {"txt_hanjaword"}), item)
    IN  IF a # {} THEN Least(a) ELSE IF b # {} THEN Least(b) ELSE Least(h)

\* C6 as stated: the headword of a word is the text of the txt_cleansch
\* element of its item if there is one, else of the txt_searchword element,
\* else of the txt_hanjaword element.
C6_HeadwordByPriority ==
    \A c \in callers :
        (Found(c) /\ Aligned(c)) =>
            \A k \in 1..Len(WordsOf(c)) :
                WordsOf(c)[k].word =
                    Content(document[c], ByPriority(document[c], ItemAt(document[c], k)))

\* C6, amended: the headword of a word is the text of the first element, in
\* document order, of its item that carries any of the three headword
\* markers.
C6_HeadwordByDocumentOrder ==
    \A c \in callers :
        (Found(c) /\ Aligned(c)) =>
            \A k \in 1..Len(WordsOf(c)) :
                WordsOf(c)[k].word =
                    Content(document[c],
                            Least(HeadwordsIn(document[c], ItemAt(document[c], k))))
C6_Witness ==
    \E c \in callers :
        /\ Found(c) /\ Len(WordsOf(c)) = 1
        /\ WordsOf(c)[1].word = <<115>>
        /\ \E i \in HeadedItems(document[c], CardAt(document[c], 1)) :
               \E x, y \in HeadwordsIn(document[c], i) :
                   /\ x < y
                   /\ "txt_searchword" \in document[c][x].classes
                   /\ "txt_cleansch" \in document[c][y].classes

\* C7: a card without a label element yields no word, whatever its items
\* hold, and no error: every parsed document gives a Search, whose words
\* are as many as the cards that have a label and an item with a headword.
C7_UnlabelledCardSkipped ==
    \A c \in callers :
        (Returned(c) /\ Did(c, "parse")) =>
            /\ result[c].tag = "Ok"
            /\ Len(WordsOf(c)) =
                   Cardinality({card \in CardsOf(document[c]) :
                                   /\ LabelsIn(document[c], card) # {}
                                   /\ \E i \in ItemsIn(document[c], card) :
                                          HeadwordsIn(document[c], i) # {}})
C7_Witness ==
    \E c \in callers :
        /\ Found(c) /\ Len(WordsOf(c)) = 1
        /\ \E card \in CardsOf(document[c]) :
               /\ LabelsIn(document[c], card) = {}
               /\ card < CardAt(document[c], 1)
               /\ \E i \in ItemsIn(document[c], card) :
                      /\ HeadwordsIn(document[c], i) # {}
                      /\ PronouncesIn(document[c], i) # {}
                      /\ GlossesIn(document[c], i) # {}

\* C8 as stated: no word has the empty string for its headword.
C8_HeadwordNonEmpty ==
    \A c \in callers :
        Found(c) => \A k \in 1..Len(WordsOf(c)) : WordsOf(c)[k].word # <<>>

\* C8, amended: the headword of a word is empty exactly when the headword
\* element it is taken from, the first of its item, holds no text.
C8_HeadwordEmptyIffNoText ==
    \A c \in callers :
        (Found(c) /\ Aligned(c)) =>
            \A k \in 1..Len(WordsOf(c)) :
                LET doc == document[c]
                    e == Least(HeadwordsIn(doc, ItemAt(doc, k)))
                IN  WordsOf(c)[k].word = <<>>
                        <=> \A j \in 1..Len(doc) :
                                (doc[j].kind = "text" /\ IsWithin(doc, j, e))
                                    => doc[j].text = <<>>
C8_Witness ==
    \E c \in callers :
        /\ Found(c) /\ Len(WordsOf(c)) = 1
        /\ WordsOf(c)[1].word = <<>>
        /\ Cardinality(HeadwordsIn(document[c], ItemAt(document[c], 1))) = 2

\* C9: two calls that read the same HTML text return equal Searches, whether
\* a call ran the initialiser of SELECTOR_CACHE itself or found the cell
\* initialised by the other call, before or while it ran.
C9_SameTextSameSearch ==
    \A c1 \in callers : \A c2 \in callers :
        (Found(c1) /\ Found(c2) /\ body[c1] = body[c2]) => result[c1] = result[c2]
C9_Witness ==
    \E c1 \in callers : \E c2 \in callers :
        /\ Found(c1) /\ Found(c2)
        /\ Did(c1, "init") /\ Did(c2, "get")
        /\ WordsOf(c2) # <<>> /\ AlternativesOf(c2) # <<>>

\* C10: a card yields at most one word, that of its first item with a
\* headword marker: the words are no more than the cards, and the k-th word
\* has the text of a headword element of the first such item of the k-th
\* card, in document order, that has a label and such an item.
C10_OneWordPerCard ==
    \A c \in callers :
        Found(c) =>
            LET doc == document[c]
            IN  /\ Len(WordsOf(c)) <= Cardinality(CardsOf(doc))
                /\ Aligned(c)
                /\ \A k \in 1..Len(WordsOf(c)) :
                       \E e \in HeadwordsIn(doc, ItemAt(doc, k)) :
                           WordsOf(c)[k].word = Content(doc, e)
C10_Witness ==
    \E c \in callers :
        /\ Found(c)
        /\ Cardinality(CardsOf(document[c])) = 2
        /\ \A card \in CardsOf(document[c]) :
               Cardinality(HeadedItems(document[c], card)) = 2
        /\ WordsOf(c) = <<Word(<<49, 49>>, Korean, None, <<>>),
                          Word(<<50, 49>>, Korean, None, <<>>)>>

=============================================================================
